---------------------------- MODULE Spec2Model ----------------------------
(***************************************************************************)
(* clipper: highlight detection worker (TranscriptionWorker.run of         *)
(* clipper-v2.01.py) and the typing display queue of the editor widget     *)
(* (animate_typing / type_next_character / handle_transcription_finished). *)
(*                                                                         *)
(* Times are whole seconds, classifier scores are hundredths (98 = 0.98).  *)
(* In the worker a text is the sequence of its whitespace-separated words; *)
(* in the display queue a text is the sequence of its characters.          *)
(***************************************************************************)
EXTENDS Integers, Sequences, FiniteSets, TLC

VARIABLES
    \* ---- TranscriptionWorker.run ----
    segments,               \* result['segments'] of model.transcribe
    i,                      \* number of loop iterations completed
    pc,                     \* "loop" | "done" | "aborted" (exception left run)
    detected_highlights,
    batch_texts,
    batch_starts,
    batch_ends,
    batch_ids,              \* history: indices of the segments in the batch
    last_highlight_end,
    candidates,             \* history: the segment behind every highlight
    live_update,            \* values emitted on the live_update signal
    progress,               \* values emitted on the progress signal
    finished,               \* values emitted on the finished signal
    classifier_calls,       \* history: argument of every classifier call
    classifier_ids,         \* history: segment indices of every call
    classifier_raised,      \* history: a classifier call raised
    events,                 \* history: signals and classifier calls, in order
    earlier_runs,           \* history: lists emitted by earlier runs
    \* ---- VideoTranscriberEditor (typing display queue) ----
    ui,                     \* "constructed" | "running" | "finished"
    full_text,
    pending_segments,
    current_typing_text,
    current_char_index,
    typing_timer,           \* typing_timer.isActive()
    highlights,
    clip_buttons,           \* cut_clip / save_clip / reject buttons enabled
    save_transcript_button, \* save_transcript_button enabled
    submitted,              \* history: chunks passed to animate_typing
    workers,                \* workers started whose finished is not handled
    runs,                   \* number of calls of transcribe_video
    \* ---- TranscriptionWorker.generate_title on its own ----
    title_text,             \* the argument, as characters
    title,                  \* the value returned, as characters
    title_pc,               \* "call" | "returned" | "unused"
    \* ---- the clip computation of run() on its own ----
    clip_index,             \* number of the segment taken from ClipInputs
    clip_pc,                \* "next" | "computed" | "done" | "unused"
    clip_result,            \* clip_end before the buffer, clip_start, clip_end
    first_binds,            \* history: the first term of min() was smaller
    second_binds,           \* history: the second term of min() was smaller
    \* ---- the highlights panel of clipper-v1.01 ----
    highlights_textbox,     \* the lines (blocks) of the highlights text box
    clip_start_time,        \* -1 stands for None
    clip_end_time,          \* -1 stands for None
    status_label,
    last_action             \* history: the last button handler and its cursor

workerVars == <<segments, i, pc, detected_highlights, batch_texts, batch_starts,
                batch_ends, batch_ids, last_highlight_end, candidates,
                live_update, progress, finished, classifier_calls,
                classifier_ids, classifier_raised, events, earlier_runs>>

uiVars == <<ui, full_text, pending_segments, current_typing_text,
            current_char_index, typing_timer, highlights, clip_buttons,
            save_transcript_button, submitted, workers, runs>>

titleVars == <<title_text, title, title_pc>>

clipVars == <<clip_index, clip_pc, clip_result, first_binds, second_binds>>

panelVars == <<highlights_textbox, clip_start_time, clip_end_time,
               status_label, last_action>>

vars == <<workerVars, uiVars, titleVars, clipVars, panelVars>>

----------------------------------------------------------------------------
(* Bounds of the model *)

\* longest segment stream
MaxSegments == 11

\* most chunks submitted to the display queue in one run
MaxChunks == 3

\* longest text handed to generate_title on its own (7 one-letter words)
MaxTitleChars == 13

\* the number of times transcribe_video is invoked on one window
MaxRuns == 2

\* the longest segment stream of a clipper-v1.01 run
MaxSegmentsV101 == 3

\* the longest highlight list shown in the highlights panel
MaxHighlights == 3

\* the clip computation on its own is evaluated for the segment starts
\* 0..MaxStart and for the segment lengths from -MaxBack (end before start)
\* to MaxBack and around the two clamps, up to MaxClipSeconds + MaxOver
MaxStart == 4

MaxBack == 2

MaxOver == 2

(* Program constants *)

\* len(batch_texts) >= 10
BatchSize == 10

\* top_score > 0.98, in hundredths
ScoreThreshold == 98

\* clip_duration < 20
MinClipSeconds == 20

\* clip_duration > 120
MaxClipSeconds == 120

\* start_time - 2 and the two "+ 2" of the clip_end formula
ClipBuffer == 2

\* words[:6]
TitleWords == 6

\* clipper-v1.01: slice_size = 10, the length of a slice of a long segment
SliceSeconds == 10

\* clipper-v1.01: top_score > 0.95
ScoreThresholdV101 == 95

\* clipper-v1.01: clip_end = timestamp + 8
ClipAfterV101 == 8

----------------------------------------------------------------------------
(* Pure helpers of the worker *)

Max(a, b) == IF a >= b THEN a ELSE b

Min(a, b) == IF a <= b THEN a ELSE b

\* the labels accepted at line 84
AcceptLabels == {"joy", "surprise"}

\* The external classifier (top-1 label and score per text), as a table over
\* the texts of the model: one text per class of outcome line 84 tells apart.
ClassifierTop(text) ==
    CASE text = <<"wow", "amazing">>      -> [label |-> "joy",      score |-> 99]
      [] text = <<"oh", "no", "way">>     -> [label |-> "surprise", score |-> 99]
      [] text = <<"nice">>                -> [label |-> "joy",      score |-> 98]
      [] text = <<"so", "sad">>           -> [label |-> "sadness",  score |-> 99]
      [] OTHER                            -> [label |-> "neutral",  score |-> 50]

\* predictions = classifier(batch_texts): one result per text, same order
classifier(texts) == [k \in 1..Len(texts) |-> ClassifierTop(texts[k])]

Space == " "

Ellipsis == <<".", ".", ".">>

\* text.split(): the maximal runs of non-blank characters, in order
RECURSIVE SplitAcc(_, _, _)
SplitAcc(text, word, words) ==
    IF text = <<>>
    THEN (IF word = <<>> THEN words ELSE Append(words, word))
    ELSE IF Head(text) = Space
         THEN SplitAcc(Tail(text), <<>>,
                       IF word = <<>> THEN words ELSE Append(words, word))
         ELSE SplitAcc(Tail(text), Append(word, Head(text)), words)

split(text) == SplitAcc(text, <<>>, <<>>)

\* ' '.join(words)
RECURSIVE join(_)
join(words) ==
    IF words = <<>> THEN <<>>
    ELSE IF Len(words) = 1 THEN words[1]
    ELSE words[1] \o <<Space>> \o join(Tail(words))

\* the characters of a worker text given by its words, single-spaced; a word
\* of the worker is one atom
Phrase(ws) == join([k \in 1..Len(ws) |-> <<ws[k]>>])

\* lines 115-120
generate_title(text) ==
    LET words == split(text) IN
    IF Len(words) >= TitleWords
    THEN join(SubSeq(words, 1, TitleWords)) \o Ellipsis
    ELSE join(words)

\* Mutant: the batch is evaluated only when it is full, not at the last segment
FlushDueFullOnly(len, idx, total) == len >= BatchSize

\* line 73: len(batch_texts) >= 10 or i == total_segments - 1  (idx is 0-based)
FlushDue(len, idx, total) == len >= BatchSize \/ idx = total - 1

\* Mutant: the threshold is inclusive
IsCandidateInclusive(pred) ==
    pred.label \in AcceptLabels /\ pred.score >= ScoreThreshold

\* line 84: top_label in ["joy", "surprise"] and top_score > 0.98
IsCandidate(pred) ==
    pred.label \in AcceptLabels /\ pred.score > ScoreThreshold

\* Mutant: only the lower clamp is applied
CandidateEndNoUpper(start_time, end_time) ==
    IF end_time - start_time < MinClipSeconds
    THEN start_time + MinClipSeconds
    ELSE end_time

\* Mutant: a segment shorter than the minimum keeps its own end
CandidateEndNoLower(start_time, end_time) ==
    IF end_time - start_time > MaxClipSeconds
    THEN start_time + MaxClipSeconds
    ELSE end_time

\* lines 81, 86-91: the pre-buffer clip_end
CandidateEnd(start_time, end_time) ==
    LET clip_duration == end_time - start_time IN
    IF clip_duration < MinClipSeconds THEN start_time + MinClipSeconds
    ELSE IF clip_duration > MaxClipSeconds THEN start_time + MaxClipSeconds
    ELSE end_time

\* line 93: clip_start = max(0, start_time - 2)
ClipStart(start_time) == Max(0, start_time - ClipBuffer)

\* Mutant: the end is the clamped end plus the trailing buffer
ClipEndTrailing(start_time, clip_start, clip_end) == clip_end + ClipBuffer

\* line 94: min(clip_start + (clip_end - start_time) + 2, clip_end + 2)
ClipEnd(start_time, clip_start, clip_end) ==
    Min(clip_start + (clip_end - start_time) + ClipBuffer, clip_end + ClipBuffer)

\* Mutant: the overlap gate is missing
OverlapGateOpen(clip_start, last_end) == TRUE

\* line 96: clip_start >= last_highlight_end
OverlapGate(clip_start, last_end) == clip_start >= last_end

\* lines 76-104: the loop over the predictions of one batch, from index idx on,
\* carrying (detected_highlights, last_highlight_end); cands records, for
\* every highlight appended, the segment and the pre-buffer clip_end it had
RECURSIVE Assemble(_, _, _, _, _, _, _, _, _)
Assemble(predictions, texts, starts, ends, ids, idx, hl, last_end, cands) ==
    IF idx > Len(predictions)
    THEN [highlights |-> hl, last |-> last_end, cands |-> cands]
    ELSE
      LET start_time == starts[idx]
          end_time   == ends[idx]
          cand_end   == CandidateEnd(start_time, end_time)
          clip_start == ClipStart(start_time)
          clip_end   == ClipEnd(start_time, clip_start, cand_end)
      IN  IF IsCandidate(predictions[idx]) /\ OverlapGate(clip_start, last_end)
          THEN Assemble(predictions, texts, starts, ends, ids, idx + 1,
                        Append(hl, <<clip_start, clip_end,
                                     generate_title(Phrase(texts[idx]))>>),
                        clip_end,
                        Append(cands, [id |-> ids[idx],
                                       start_time |-> start_time,
                                       end_time |-> end_time,
                                       clip_end |-> cand_end]))
          ELSE Assemble(predictions, texts, starts, ends, ids, idx + 1,
                        hl, last_end, cands)

\* Mutant: progress counts the iterations before this one
PercentCompleteLate(k, n) == ((k - 1) * 100) \div n

\* Mutant: the percentage is rounded to the nearest integer
PercentCompleteRounded(k, n) == (2 * k * 100 + n) \div (2 * n)

\* line 110: int((i + 1) / total_segments * 100).  int() truncates, and for
\* every n below 50 the float expression truncates to the exact floor of
\* 100k/n.
PercentComplete(k, n) == (k * 100) \div n

\* Mutant: the buffers keep their content after a flush
ClearBatchKeep(b) == b

\* lines 106-108: batch_texts.clear() etc.
ClearBatch(b) == <<>>

----------------------------------------------------------------------------
(* The segment streams of the model *)

Segment(text, start, end) == [text |-> text, start |-> start, end |-> end]

\* Segments the classifier rejects: consecutive 3-second utterances whose
\* texts cycle through "below threshold", "joy exactly at the threshold" and
\* "other label above the threshold".
FillerTexts == << <<"ok">>, <<"nice">>, <<"so", "sad">> >>

Filler(k) == Segment(FillerTexts[(k % 3) + 1], 3 * (k - 1), 3 * k)

\* Segments the classifier accepts: short, in-range, over-long and malformed
\* durations; starts below and above the 2-second lead buffer.
CandidateMenu ==
    << Segment(<<"wow", "amazing">>,   0,   3),
       Segment(<<"wow", "amazing">>,   0,   5),
       Segment(<<"wow", "amazing">>,   4,   9),
       Segment(<<"oh", "no", "way">>,  1,   3),
       Segment(<<"wow", "amazing">>,  24,  30),
       Segment(<<"wow", "amazing">>,  30,  60),
       Segment(<<"oh", "no", "way">>, 70, 200),
       Segment(<<"wow", "amazing">>,  50,  45) >>

\* stream positions at which an accepted segment may stand: the first two
\* segments, the last of the first batch and the first of the second
CandidatePositions == {1, 2, BatchSize, BatchSize + 1}

Stream(n, f) ==
    [k \in 1..n |-> IF k \in CandidatePositions /\ f[k] > 0
                    THEN CandidateMenu[f[k]] ELSE Filler(k)]

total_segments == Len(segments)

----------------------------------------------------------------------------
(* TranscriptionWorker.run *)

\* VideoTranscriberEditor.__init__: lines 146-152 and the buttons that
\* create_ui_components leaves disabled (lines 248, 274-280)
UIConstructed ==
    /\ ui = "constructed"
    /\ full_text = <<>>
    /\ pending_segments = <<>>
    /\ current_typing_text = <<>>
    /\ current_char_index = 0
    /\ typing_timer = FALSE
    /\ highlights = <<>>
    /\ clip_buttons = FALSE
    /\ save_transcript_button = FALSE
    /\ submitted = <<>>
    /\ workers = 0
    /\ runs = 0

\* generate_title is not called on its own
TitleUnused ==
    /\ title_text = <<>>
    /\ title = <<>>
    /\ title_pc = "unused"

\* the highlights panel is not used: nothing displayed, no clip times
\* (clipper-v1.01 lines 97-98, 215)
PanelUnused ==
    /\ highlights_textbox = <<>>
    /\ clip_start_time = -1
    /\ clip_end_time = -1
    /\ status_label = "Ready to load video"
    /\ last_action = [name |-> "none"]

\* the clip computation is not evaluated on its own
ClipUnused ==
    /\ clip_index = 0
    /\ clip_pc = "unused"
    /\ clip_result = [candidate_end |-> 0, clip_start |-> 0, clip_end |-> 0]
    /\ first_binds = FALSE
    /\ second_binds = FALSE

\* an event of the worker: a signal emitted (or the classifier called) while
\* segment number seg was the one being processed
Event(sig, seg) == [sig |-> sig, seg |-> seg]

\* lines 53-58: the locals of run() on entry to the loop
WorkerStart ==
    /\ i = 0
    /\ pc = "loop"
    /\ detected_highlights = <<>>
    /\ batch_texts = <<>>
    /\ batch_starts = <<>>
    /\ batch_ends = <<>>
    /\ batch_ids = <<>>
    /\ last_highlight_end = 0
    /\ candidates = <<>>
    /\ live_update = <<>>
    /\ progress = <<>>
    /\ finished = <<>>
    /\ classifier_calls = <<>>
    /\ classifier_ids = <<>>
    /\ classifier_raised = FALSE
    /\ events = <<>>

\* lines 49-51: transcribe has returned the segments; the widget is constructed
Init ==
    /\ \E n \in 0..MaxSegments :
         \E f \in [CandidatePositions -> 0..Len(CandidateMenu)] :
            segments = Stream(n, f)
    /\ WorkerStart
    /\ earlier_runs = <<>>
    /\ UIConstructed
    /\ TitleUnused
    /\ ClipUnused
    /\ PanelUnused

\* Mutant: progress is emitted only by an iteration that evaluates the batch
IterateNoProgress ==
    /\ pc = "loop"
    /\ i < total_segments
    /\ ~FlushDue(Len(batch_texts) + 1, i, total_segments)
    /\ batch_texts' = Append(batch_texts, segments[i + 1].text)
    /\ batch_starts' = Append(batch_starts, segments[i + 1].start)
    /\ batch_ends' = Append(batch_ends, segments[i + 1].end)
    /\ batch_ids' = Append(batch_ids, i + 1)
    /\ live_update' = Append(live_update, segments[i + 1].text)
    /\ i' = i + 1
    /\ events' = Append(events, Event("live_update", i + 1))
    /\ UNCHANGED <<segments, pc, detected_highlights, last_highlight_end,
                   candidates, progress, finished, classifier_calls,
                   classifier_ids, classifier_raised, earlier_runs, uiVars,
                   titleVars, clipVars, panelVars>>

\* lines 60-70, 73 (false), 110-111: an iteration that does not evaluate
Iterate ==
    /\ pc = "loop"
    /\ i < total_segments
    /\ ~FlushDue(Len(batch_texts) + 1, i, total_segments)
    /\ batch_texts' = Append(batch_texts, segments[i + 1].text)
    /\ batch_starts' = Append(batch_starts, segments[i + 1].start)
    /\ batch_ends' = Append(batch_ends, segments[i + 1].end)
    /\ batch_ids' = Append(batch_ids, i + 1)
    /\ live_update' = Append(live_update, segments[i + 1].text)
    /\ progress' = Append(progress, PercentComplete(i + 1, total_segments))
    /\ i' = i + 1
    /\ events' = events \o << Event("live_update", i + 1),
                               Event("progress", i + 1) >>
    /\ UNCHANGED <<segments, pc, detected_highlights, last_highlight_end,
                   candidates, finished, classifier_calls, classifier_ids,
                   classifier_raised, earlier_runs, uiVars, titleVars,
                   clipVars, panelVars>>

\* Mutant: the text is sent to the display after the batch was evaluated
IterateFlushLateUpdate ==
    /\ pc = "loop"
    /\ i < total_segments
    /\ FlushDue(Len(batch_texts) + 1, i, total_segments)
    /\ LET texts  == Append(batch_texts, segments[i + 1].text)
           starts == Append(batch_starts, segments[i + 1].start)
           ends   == Append(batch_ends, segments[i + 1].end)
           ids    == Append(batch_ids, i + 1)
           r      == Assemble(classifier(texts), texts, starts, ends, ids, 1,
                              detected_highlights, last_highlight_end,
                              candidates)
       IN  /\ detected_highlights' = r.highlights
           /\ last_highlight_end' = r.last
           /\ candidates' = r.cands
           /\ classifier_calls' = Append(classifier_calls, texts)
           /\ classifier_ids' = Append(classifier_ids, ids)
           /\ batch_texts' = ClearBatch(texts)
           /\ batch_starts' = ClearBatch(starts)
           /\ batch_ends' = ClearBatch(ends)
           /\ batch_ids' = ClearBatch(ids)
    /\ live_update' = Append(live_update, segments[i + 1].text)
    /\ progress' = Append(progress, PercentComplete(i + 1, total_segments))
    /\ i' = i + 1
    /\ events' = events \o << Event("classifier", i + 1),
                               Event("live_update", i + 1),
                               Event("progress", i + 1) >>
    /\ UNCHANGED <<segments, pc, finished, classifier_raised, earlier_runs,
                   uiVars, titleVars, clipVars, panelVars>>

\* lines 60-111 with the condition of line 73 true and the classifier
\* returning its predictions
IterateFlush ==
    /\ pc = "loop"
    /\ i < total_segments
    /\ FlushDue(Len(batch_texts) + 1, i, total_segments)
    /\ LET texts  == Append(batch_texts, segments[i + 1].text)
           starts == Append(batch_starts, segments[i + 1].start)
           ends   == Append(batch_ends, segments[i + 1].end)
           ids    == Append(batch_ids, i + 1)
           r      == Assemble(classifier(texts), texts, starts, ends, ids, 1,
                              detected_highlights, last_highlight_end,
                              candidates)
       IN  /\ detected_highlights' = r.highlights
           /\ last_highlight_end' = r.last
           /\ candidates' = r.cands
           /\ classifier_calls' = Append(classifier_calls, texts)
           /\ classifier_ids' = Append(classifier_ids, ids)
           /\ batch_texts' = ClearBatch(texts)
           /\ batch_starts' = ClearBatch(starts)
           /\ batch_ends' = ClearBatch(ends)
           /\ batch_ids' = ClearBatch(ids)
    /\ live_update' = Append(live_update, segments[i + 1].text)
    /\ progress' = Append(progress, PercentComplete(i + 1, total_segments))
    /\ i' = i + 1
    /\ events' = events \o << Event("live_update", i + 1),
                               Event("classifier", i + 1),
                               Event("progress", i + 1) >>
    /\ UNCHANGED <<segments, pc, finished, classifier_raised, earlier_runs,
                   uiVars, titleVars, clipVars, panelVars>>

\* lines 60-74 with the classifier raising at line 74: nothing catches the
\* exception, so it leaves run() and the thread ends without another signal
IterateClassifierRaises ==
    /\ pc = "loop"
    /\ i < total_segments
    /\ FlushDue(Len(batch_texts) + 1, i, total_segments)
    /\ batch_texts' = Append(batch_texts, segments[i + 1].text)
    /\ batch_starts' = Append(batch_starts, segments[i + 1].start)
    /\ batch_ends' = Append(batch_ends, segments[i + 1].end)
    /\ batch_ids' = Append(batch_ids, i + 1)
    /\ live_update' = Append(live_update, segments[i + 1].text)
    /\ classifier_calls' = Append(classifier_calls, batch_texts')
    /\ classifier_ids' = Append(classifier_ids, batch_ids')
    /\ classifier_raised' = TRUE
    /\ pc' = "aborted"
    /\ events' = events \o << Event("live_update", i + 1),
                               Event("classifier", i + 1) >>
    /\ UNCHANGED <<segments, i, detected_highlights, last_highlight_end,
                   candidates, progress, finished, earlier_runs, uiVars,
                   titleVars, clipVars, panelVars>>

\* Mutant: run() does not end after emitting finished
EmitFinishedAgain ==
    /\ pc = "loop"
    /\ i = total_segments
    /\ finished' = Append(finished, detected_highlights)
    /\ events' = Append(events, Event("finished", i))
    /\ UNCHANGED <<segments, i, pc, detected_highlights, batch_texts,
                   batch_starts, batch_ends, batch_ids, last_highlight_end,
                   candidates, live_update, progress, classifier_calls,
                   classifier_ids, classifier_raised, earlier_runs, uiVars,
                   titleVars, clipVars, panelVars>>

\* line 113: self.finished.emit(detected_highlights)
EmitFinished ==
    /\ pc = "loop"
    /\ i = total_segments
    /\ finished' = Append(finished, detected_highlights)
    /\ pc' = "done"
    /\ events' = Append(events, Event("finished", i))
    /\ UNCHANGED <<segments, i, detected_highlights, batch_texts, batch_starts,
                   batch_ends, batch_ids, last_highlight_end, candidates,
                   live_update, progress, classifier_calls, classifier_ids,
                   classifier_raised, earlier_runs, uiVars, titleVars,
                   clipVars, panelVars>>

Next ==
    \/ Iterate
    \/ IterateFlush
    \/ IterateClassifierRaises
    \/ EmitFinished

Spec == Init /\ [][Next]_vars

\* Mutant: the overlap mark is carried over from the previous run
InitialLastHighlightEndKept(previous) == previous

\* line 58: last_highlight_end = 0, a local of run()
InitialLastHighlightEnd(previous) == 0

\* lines 648, 48-58: a new TranscriptionWorker is created for the same medium
\* after the previous run() has returned or died, and its run() reaches the
\* loop: every local is created anew. earlier_runs keeps what the previous
\* runs emitted with finished (nothing for a run the classifier aborted).
run_again ==
    /\ pc \in {"done", "aborted"}
    /\ Len(earlier_runs) < MaxRuns - 1
    /\ earlier_runs' = Append(earlier_runs, finished)
    /\ i' = 0
    /\ pc' = "loop"
    /\ detected_highlights' = <<>>
    /\ batch_texts' = <<>>
    /\ batch_starts' = <<>>
    /\ batch_ends' = <<>>
    /\ batch_ids' = <<>>
    /\ last_highlight_end' = InitialLastHighlightEnd(last_highlight_end)
    /\ candidates' = <<>>
    /\ live_update' = <<>>
    /\ progress' = <<>>
    /\ finished' = <<>>
    /\ classifier_calls' = <<>>
    /\ classifier_ids' = <<>>
    /\ classifier_raised' = FALSE
    /\ events' = <<>>
    /\ UNCHANGED <<segments, uiVars, titleVars, clipVars, panelVars>>

NextRuns ==
    \/ Next
    \/ run_again

SpecRuns == Init /\ [][NextRuns]_vars

----------------------------------------------------------------------------
(* The typing display queue of VideoTranscriberEditor *)

\* the texts live_update can carry: text.strip() of a segment, possibly empty
Chunks == { <<>>, <<"a", "b">>, <<"c">> }

\* the highlight lists the finished signal can carry
FinishedLists == { <<>>, << <<0, 22, Phrase(<<"wow", "amazing">>)>> >> }

\* the last element of a non-empty list
Last(s) == s[Len(s)]

\* s1 + s2 + ... for a list of texts
RECURSIVE Concat(_)
Concat(chunks) ==
    IF chunks = <<>> THEN <<>> ELSE Head(chunks) \o Concat(Tail(chunks))

\* Mutant: the backlog is cleared without being rendered
FlushPendingDropped(text, pending) == text

\* Mutant: the text is replaced by the backlog
FlushPendingOnly(text, pending) == Concat(pending)

\* lines 707-709: for segment in self.pending_segments: self.full_text += segment
FlushPending(text, pending) == text \o Concat(pending)

\* the worker is not part of the display specification
WorkerAbsent ==
    /\ segments = <<>>
    /\ WorkerStart
    /\ earlier_runs = <<>>

InitDisplay ==
    /\ WorkerAbsent
    /\ UIConstructed
    /\ TitleUnused
    /\ ClipUnused
    /\ PanelUnused

\* lines 629-652, the first run after construction (a medium is loaded).
\* result_textbox always shows full_text and is left out, as are the status
\* label and the progress bar.
transcribe_video ==
    /\ ui = "constructed"
    /\ highlights' = <<>>
    /\ full_text' = <<>>
    /\ pending_segments' = <<>>
    /\ ui' = "running"
    /\ workers' = workers + 1
    /\ runs' = runs + 1
    /\ UNCHANGED <<current_typing_text, current_char_index, typing_timer,
                   clip_buttons, save_transcript_button, submitted, workerVars,
                   titleVars, clipVars, panelVars>>

\* Mutant: a chunk arriving while another is typed takes its place
animate_typing_interrupting ==
    /\ ui = "running"
    /\ Len(submitted) < MaxChunks
    /\ \E new_text \in Chunks :
         /\ submitted' = Append(submitted, new_text)
         /\ current_typing_text' = new_text
         /\ current_char_index' = 0
         /\ typing_timer' = TRUE
         /\ UNCHANGED pending_segments
    /\ UNCHANGED <<ui, full_text, highlights, clip_buttons,
                   save_transcript_button, workers, runs, workerVars,
                   titleVars, clipVars, panelVars>>

\* lines 661-669, as the slot of the worker's live_update signal
animate_typing ==
    /\ ui = "running"
    /\ Len(submitted) < MaxChunks
    /\ \E new_text \in Chunks :
         /\ submitted' = Append(submitted, new_text)
         /\ IF typing_timer
            THEN /\ pending_segments' = Append(pending_segments, new_text)
                 /\ UNCHANGED <<current_typing_text, current_char_index,
                                typing_timer>>
            ELSE /\ current_typing_text' = new_text
                 /\ current_char_index' = 0
                 /\ typing_timer' = TRUE
                 /\ UNCHANGED pending_segments
    /\ UNCHANGED <<ui, full_text, highlights, clip_buttons,
                   save_transcript_button, workers, runs, workerVars,
                   titleVars, clipVars, panelVars>>

\* Mutant: the newest chunk of the backlog is typed next
type_next_character_newest_first ==
    /\ typing_timer
    /\ IF current_char_index < Len(current_typing_text)
       THEN /\ full_text' = Append(full_text,
                                   current_typing_text[current_char_index + 1])
            /\ current_char_index' = current_char_index + 1
            /\ UNCHANGED <<typing_timer, pending_segments, current_typing_text>>
       ELSE IF pending_segments /= <<>>
            THEN /\ current_typing_text' = Last(pending_segments)
                 /\ pending_segments' = SubSeq(pending_segments, 1,
                                               Len(pending_segments) - 1)
                 /\ current_char_index' = 0
                 /\ typing_timer' = TRUE
                 /\ UNCHANGED full_text
            ELSE /\ typing_timer' = FALSE
                 /\ UNCHANGED <<full_text, pending_segments,
                                current_typing_text, current_char_index>>
    /\ UNCHANGED <<ui, highlights, clip_buttons, save_transcript_button,
                   submitted, workers, runs, workerVars, titleVars, clipVars,
                   panelVars>>

\* Mutant: the timer stops at the end of a chunk whatever is waiting
type_next_character_stops ==
    /\ typing_timer
    /\ IF current_char_index < Len(current_typing_text)
       THEN /\ full_text' = Append(full_text,
                                   current_typing_text[current_char_index + 1])
            /\ current_char_index' = current_char_index + 1
            /\ UNCHANGED <<typing_timer, pending_segments, current_typing_text>>
       ELSE /\ typing_timer' = FALSE
            /\ UNCHANGED <<full_text, pending_segments,
                           current_typing_text, current_char_index>>
    /\ UNCHANGED <<ui, highlights, clip_buttons, save_transcript_button,
                   submitted, workers, runs, workerVars, titleVars, clipVars,
                   panelVars>>

\* Mutant: with chunks waiting, a tick types the rest of the chunk at once
type_next_character_catching_up ==
    /\ typing_timer
    /\ IF current_char_index < Len(current_typing_text)
       THEN /\ full_text' =
                 IF pending_segments /= <<>>
                 THEN full_text \o SubSeq(current_typing_text,
                                          current_char_index + 1,
                                          Len(current_typing_text))
                 ELSE Append(full_text,
                             current_typing_text[current_char_index + 1])
            /\ current_char_index' =
                 IF pending_segments /= <<>>
                 THEN Len(current_typing_text)
                 ELSE current_char_index + 1
            /\ UNCHANGED <<typing_timer, pending_segments, current_typing_text>>
       ELSE IF pending_segments /= <<>>
            THEN /\ current_typing_text' = Head(pending_segments)
                 /\ pending_segments' = Tail(pending_segments)
                 /\ current_char_index' = 0
                 /\ typing_timer' = TRUE
                 /\ UNCHANGED full_text
            ELSE /\ typing_timer' = FALSE
                 /\ UNCHANGED <<full_text, pending_segments,
                                current_typing_text, current_char_index>>
    /\ UNCHANGED <<ui, highlights, clip_buttons, save_transcript_button,
                   submitted, workers, runs, workerVars, titleVars, clipVars,
                   panelVars>>

\* lines 673-688, as the slot of typing_timer.timeout
type_next_character ==
    /\ typing_timer
    /\ IF current_char_index < Len(current_typing_text)
       THEN /\ full_text' = Append(full_text,
                                   current_typing_text[current_char_index + 1])
            /\ current_char_index' = current_char_index + 1
            /\ UNCHANGED <<typing_timer, pending_segments, current_typing_text>>
       ELSE IF pending_segments /= <<>>
            THEN /\ current_typing_text' = Head(pending_segments)
                 /\ pending_segments' = Tail(pending_segments)
                 /\ current_char_index' = 0
                 /\ typing_timer' = TRUE
                 /\ UNCHANGED full_text
            ELSE /\ typing_timer' = FALSE
                 /\ UNCHANGED <<full_text, pending_segments,
                                current_typing_text, current_char_index>>
    /\ UNCHANGED <<ui, highlights, clip_buttons, save_transcript_button,
                   submitted, workers, runs, workerVars, titleVars, clipVars,
                   panelVars>>

\* lines 691-712, as the slot of the worker's finished signal
handle_transcription_finished ==
    /\ ui = "running"
    /\ \E detected \in FinishedLists :
         /\ highlights' = detected
         /\ clip_buttons' = IF detected /= <<>> THEN TRUE ELSE clip_buttons
    /\ save_transcript_button' = TRUE
    /\ IF pending_segments /= <<>>
       THEN /\ full_text' = FlushPending(full_text, pending_segments)
            /\ pending_segments' = <<>>
       ELSE UNCHANGED <<full_text, pending_segments>>
    /\ ui' = IF workers > 1 THEN "running" ELSE "finished"
    /\ workers' = workers - 1
    /\ UNCHANGED <<current_typing_text, current_char_index, typing_timer,
                   submitted, runs, workerVars, titleVars, clipVars,
                   panelVars>>

NextDisplay ==
    \/ transcribe_video
    \/ animate_typing
    \/ type_next_character
    \/ handle_transcription_finished

SpecDisplay == InitDisplay /\ [][NextDisplay]_vars

\* clipper-v1.01.py lines 553-564 (clipper-v1.py lines 543-557 likewise):
\* the slot of the finished signal in the versions that do not flush the
\* backlog; it leaves the display queue alone
handle_transcription_finished_v1 ==
    /\ ui = "running"
    /\ \E detected \in FinishedLists :
         /\ highlights' = detected
         /\ clip_buttons' = (detected /= <<>>)
    /\ save_transcript_button' = TRUE
    /\ ui' = IF workers > 1 THEN "running" ELSE "finished"
    /\ workers' = workers - 1
    /\ UNCHANGED <<full_text, pending_segments, current_typing_text,
                   current_char_index, typing_timer, submitted, runs,
                   workerVars, titleVars, clipVars, panelVars>>

\* the display queue of any of the three versions: animate_typing and
\* type_next_character are the same code in all of them, and the stream end
\* is handled with or without the flush
NextQueue ==
    \/ NextDisplay
    \/ handle_transcription_finished_v1

\* typing_timer is a repeating QTimer of the GUI thread: while it is active
\* its timeout slot keeps being run by the event loop
SpecQueue ==
    InitDisplay /\ [][NextQueue]_vars /\ WF_vars(type_next_character)

\* lines 635-652: what transcribe_video resets and starts. The typing state
\* (typing_timer, current_typing_text, current_char_index) is not touched.
StartRun ==
    /\ highlights' = <<>>
    /\ full_text' = <<>>
    /\ pending_segments' = <<>>
    /\ submitted' = <<>>
    /\ ui' = "running"
    /\ workers' = workers + 1
    /\ runs' = runs + 1
    /\ UNCHANGED <<current_typing_text, current_char_index, typing_timer,
                   clip_buttons, save_transcript_button, workerVars,
                   titleVars, clipVars, panelVars>>

\* lines 629-652, invoked again after the previous run has finished
\* (transcribe_button stays enabled, lines 860-865)
transcribe_video_again ==
    /\ ui = "finished"
    /\ runs < MaxRuns
    /\ StartRun

NextRestart ==
    \/ NextDisplay
    \/ transcribe_video_again

SpecRestart == InitDisplay /\ [][NextRestart]_vars

\* lines 629-652, invoked while the worker of the previous run is still
\* running: line 648 rebinds self.worker, and the running thread of the old
\* worker keeps emitting into the same slots
transcribe_video_while_running ==
    /\ ui = "running"
    /\ runs < MaxRuns
    /\ StartRun

\* the other outcome of line 648 while the old thread runs: the old QThread
\* object is destroyed with its thread running and Qt aborts the process
transcribe_video_destroys_thread ==
    /\ ui = "running"
    /\ runs < MaxRuns
    /\ ui' = "aborted"
    /\ workers' = 0
    /\ typing_timer' = FALSE
    /\ UNCHANGED <<full_text, pending_segments, current_typing_text,
                   current_char_index, highlights, clip_buttons,
                   save_transcript_button, submitted, runs, workerVars,
                   titleVars, clipVars, panelVars>>

NextOverlap ==
    \/ NextDisplay
    \/ transcribe_video_while_running
    \/ transcribe_video_destroys_thread

SpecOverlap == InitDisplay /\ [][NextOverlap]_vars

----------------------------------------------------------------------------
(* TranscriptionWorker.generate_title on its own *)

TitleAlphabet == {"x", Space}

\* every text of at most MaxTitleChars characters
TitleTexts == UNION {[1..n -> TitleAlphabet] : n \in 0..MaxTitleChars}

InitTitle ==
    /\ WorkerAbsent
    /\ UIConstructed
    /\ title_text \in TitleTexts
    /\ title = <<>>
    /\ title_pc = "call"
    /\ ClipUnused
    /\ PanelUnused

\* title = self.generate_title(clip_text)
call_generate_title ==
    /\ title_pc = "call"
    /\ title' = generate_title(title_text)
    /\ title_pc' = "returned"
    /\ UNCHANGED <<title_text, workerVars, uiVars, clipVars, panelVars>>

NextTitle == call_generate_title

SpecTitle == InitTitle /\ [][NextTitle]_vars

----------------------------------------------------------------------------
(* The clip computation of TranscriptionWorker.run on its own *)

\* the list a, a + 1, ..., b
Range(a, b) == [k \in 1..(b - a + 1) |-> a + k - 1]

\* end_time - start_time of the segments evaluated: around 0 (an end at or
\* before the start included) and around the two clamps of lines 86-89
ClipLengths ==
    Range(-MaxBack, MaxBack)
        \o Range(MinClipSeconds - 1, MinClipSeconds + 1)
        \o Range(MaxClipSeconds - 1, MaxClipSeconds + MaxOver)

\* the number of segments evaluated: every start with every length
NumClipInputs == (MaxStart + 1) * Len(ClipLengths)

\* lines 79-80: start_time and end_time of the n-th segment evaluated
ClipInput(n) ==
    LET start_time == (n - 1) \div Len(ClipLengths)
        length     == ClipLengths[((n - 1) % Len(ClipLengths)) + 1]
    IN  [start |-> start_time, end |-> start_time + length]

InitClip ==
    /\ WorkerAbsent
    /\ UIConstructed
    /\ TitleUnused
    /\ clip_index = 1
    /\ clip_pc = "next"
    /\ clip_result = [candidate_end |-> 0, clip_start |-> 0, clip_end |-> 0]
    /\ first_binds = FALSE
    /\ second_binds = FALSE
    /\ PanelUnused

\* lines 79-94 for one accepted segment; first_binds and second_binds record
\* which term of the min() of line 94 was strictly smaller for a segment
\* with end > start
compute_clip ==
    /\ clip_pc = "next"
    /\ LET start_time == ClipInput(clip_index).start
           end_time   == ClipInput(clip_index).end
           cand_end   == CandidateEnd(start_time, end_time)
           clip_start == ClipStart(start_time)
           clip_end   == ClipEnd(start_time, clip_start, cand_end)
           first      == clip_start + (cand_end - start_time) + ClipBuffer
           second     == cand_end + ClipBuffer
       IN  /\ clip_result' = [candidate_end |-> cand_end,
                              clip_start |-> clip_start,
                              clip_end |-> clip_end]
           /\ first_binds' =
                (first_binds \/ (end_time > start_time /\ first < second))
           /\ second_binds' =
                (second_binds \/ (end_time > start_time /\ second < first))
    /\ clip_pc' = "computed"
    /\ UNCHANGED <<clip_index, workerVars, uiVars, titleVars, panelVars>>

\* line 76: the loop goes on to the next segment, or ends
next_clip_segment ==
    /\ clip_pc = "computed"
    /\ IF clip_index < NumClipInputs
       THEN /\ clip_index' = clip_index + 1
            /\ clip_pc' = "next"
       ELSE /\ clip_pc' = "done"
            /\ UNCHANGED clip_index
    /\ UNCHANGED <<clip_result, first_binds, second_binds, workerVars, uiVars,
                   titleVars, panelVars>>

NextClip ==
    \/ compute_clip
    \/ next_clip_segment

SpecClip == InitClip /\ [][NextClip]_vars

----------------------------------------------------------------------------
(* TranscriptionWorker.run of clipper-v1.01 *)

\* clipper-v1.01 lines 50-60: the timestamps evaluate_segment is called with
\* for one segment, one per slice of a segment longer than SliceSeconds
SliceStarts(start, end) ==
    IF end - start > SliceSeconds
    THEN [k \in 1..((end - start) \div SliceSeconds + 1) |->
             start + (k - 1) * SliceSeconds]
    ELSE <<start>>

\* clipper-v1.01 lines 68-81; raised says that classifier(text) raises
evaluate_segment(timestamp, text, raised, highlights_so_far) ==
    IF raised THEN highlights_so_far
    ELSE LET prediction == ClassifierTop(text) IN
         IF prediction.label \in AcceptLabels
               /\ prediction.score > ScoreThresholdV101
         THEN Append(highlights_so_far,
                     <<Max(0, timestamp - ClipBuffer),
                       timestamp + ClipAfterV101, text>>)
         ELSE highlights_so_far

\* the calls of evaluate_segment for the slices k.. of one segment
RECURSIVE EvaluateSlices(_, _, _, _, _)
EvaluateSlices(timestamps, text, raises, k, highlights_so_far) ==
    IF k > Len(timestamps) THEN highlights_so_far
    ELSE EvaluateSlices(timestamps, text, raises, k + 1,
                        evaluate_segment(timestamps[k], text, raises[k],
                                         highlights_so_far))

\* the segments of the clipper-v1.01 streams: one accepted, one rejected and
\* one longer than a slice
MenuV101 ==
    { Segment(<<"wow", "amazing">>, 0, 3),
      Segment(<<"ok">>, 3, 6),
      Segment(<<"oh", "no", "way">>, 10, 35) }

StreamsV101 ==
    UNION {[1..n -> MenuV101] : n \in 0..MaxSegmentsV101}

\* clipper-v1.01 lines 37-42: transcribe has returned; classifier_calls
\* records every call of evaluate_segment and whether its classifier raised
InitV101 ==
    /\ segments \in StreamsV101
    /\ WorkerStart
    /\ earlier_runs = <<>>
    /\ UIConstructed
    /\ TitleUnused
    /\ ClipUnused
    /\ PanelUnused

\* Mutant: an exception of the classifier leaves run()
IterateV101Aborting ==
    /\ pc = "loop"
    /\ i < total_segments
    /\ LET segment    == segments[i + 1]
           timestamps == SliceStarts(segment.start, segment.end)
       IN  \E raises \in [1..Len(timestamps) -> BOOLEAN] :
             /\ detected_highlights' =
                  EvaluateSlices(timestamps, segment.text, raises, 1,
                                 detected_highlights)
             /\ classifier_calls' = classifier_calls \o
                  [k \in 1..Len(timestamps) |->
                      [seg |-> i + 1, timestamp |-> timestamps[k],
                       text |-> segment.text, raised |-> raises[k]]]
             /\ classifier_raised' =
                  (classifier_raised \/ \E k \in 1..Len(timestamps) : raises[k])
             /\ pc' = IF \E k \in 1..Len(timestamps) : raises[k]
                      THEN "aborted" ELSE pc
             /\ events' = events \o
                  [k \in 1..Len(timestamps) |-> Event("classifier", i + 1)]
                  \o << Event("live_update", i + 1),
                        Event("progress", i + 1) >>
    /\ live_update' = Append(live_update, segments[i + 1].text)
    /\ progress' = Append(progress, PercentComplete(i + 1, total_segments))
    /\ i' = i + 1
    /\ UNCHANGED <<segments, batch_texts, batch_starts, batch_ends, batch_ids,
                   last_highlight_end, candidates, finished, classifier_ids,
                   earlier_runs, uiVars, titleVars, clipVars, panelVars>>

\* clipper-v1.01 lines 44-64: one iteration of the loop, with every call of
\* evaluate_segment it makes; each classifier call may raise
IterateV101 ==
    /\ pc = "loop"
    /\ i < total_segments
    /\ LET segment    == segments[i + 1]
           timestamps == SliceStarts(segment.start, segment.end)
       IN  \E raises \in [1..Len(timestamps) -> BOOLEAN] :
             /\ detected_highlights' =
                  EvaluateSlices(timestamps, segment.text, raises, 1,
                                 detected_highlights)
             /\ classifier_calls' = classifier_calls \o
                  [k \in 1..Len(timestamps) |->
                      [seg |-> i + 1, timestamp |-> timestamps[k],
                       text |-> segment.text, raised |-> raises[k]]]
             /\ classifier_raised' =
                  (classifier_raised \/ \E k \in 1..Len(timestamps) : raises[k])
             /\ events' = events \o
                  [k \in 1..Len(timestamps) |-> Event("classifier", i + 1)]
                  \o << Event("live_update", i + 1),
                        Event("progress", i + 1) >>
    /\ live_update' = Append(live_update, segments[i + 1].text)
    /\ progress' = Append(progress, PercentComplete(i + 1, total_segments))
    /\ i' = i + 1
    /\ UNCHANGED <<segments, pc, batch_texts, batch_starts, batch_ends,
                   batch_ids, last_highlight_end, candidates, finished,
                   classifier_ids, earlier_runs, uiVars, titleVars, clipVars,
                   panelVars>>

\* clipper-v1.01 line 66 is line 113 of clipper-v2.01: EmitFinished
NextV101 ==
    \/ IterateV101
    \/ EmitFinished

\* run() is the body of a started thread: it keeps taking steps until it
\* returns
SpecV101 == InitV101 /\ [][NextV101]_vars /\ WF_vars(NextV101)

----------------------------------------------------------------------------
(* The highlights panel of clipper-v1.01: display, CUT CLIP, SAVE CLIP,    *)
(* REJECT.  Texts are sequences of characters.                             *)

DigitChars == <<"0", "1", "2", "3", "4", "5", "6", "7", "8", "9">>

\* f"{n:02d}" for 0 <= n < 100
TwoDigits(n) == <<DigitChars[(n \div 10) + 1], DigitChars[(n % 10) + 1]>>

\* clipper-v1.01 lines 684-688
format_time(seconds) ==
    LET hours   == seconds \div 3600
        minutes == (seconds % 3600) \div 60
        secs    == seconds % 60
    IN  TwoDigits(hours) \o <<":">> \o TwoDigits(minutes) \o <<":">>
            \o TwoDigits(secs)

\* clipper-v1.01 lines 586-589: the line of one highlight,
\* f"[{formatted_start} - {formatted_end}] {text}"
HighlightLine(highlight) ==
    <<"[">> \o format_time(highlight[1]) \o <<" ", "-", " ">>
        \o format_time(highlight[2]) \o <<"]", " ">> \o highlight[3]

\* clipper-v1.01 lines 582-591: the blocks of the text box after
\* setPlainText: every highlight's line followed by an empty line, and the
\* empty block after the last newline. of is the number of the highlight a
\* block displays (0 for an empty block).
update_highlights_display(list) ==
    [b \in 1..(2 * Len(list) + 1) |->
        IF b % 2 = 1 /\ b < 2 * Len(list) + 1
        THEN [text |-> HighlightLine(list[(b + 1) \div 2]),
              of |-> (b + 1) \div 2]
        ELSE [text |-> <<>>, of |-> 0]]

\* str.find(c): the 0-based index of the first c, -1 if there is none
RECURSIVE FindFrom(_, _, _)
FindFrom(text, c, k) ==
    IF k > Len(text) THEN -1
    ELSE IF text[k] = c THEN k - 1
    ELSE FindFrom(text, c, k + 1)

find(text, c) == FindFrom(text, c, 1)

\* text[a:b] of Python for a >= 0; a negative b counts from the end
Slice(text, a, b) ==
    LET stop == IF b < 0 THEN Max(0, Len(text) + b) ELSE Min(b, Len(text))
    IN  IF a >= stop THEN <<>> ELSE SubSeq(text, a + 1, stop)

\* str.split(':'): the parts between the colons, empty parts included
RECURSIVE SplitColonAcc(_, _, _)
SplitColonAcc(text, part, parts) ==
    IF text = <<>> THEN Append(parts, part)
    ELSE IF Head(text) = ":"
         THEN SplitColonAcc(Tail(text), <<>>, Append(parts, part))
         ELSE SplitColonAcc(Tail(text), Append(part, Head(text)), parts)

SplitColon(text) == SplitColonAcc(text, <<>>, <<>>)

\* str.strip() for blanks
RECURSIVE StripLeft(_)
StripLeft(text) ==
    IF text /= <<>> /\ Head(text) = Space THEN StripLeft(Tail(text)) ELSE text

RECURSIVE StripRight(_)
StripRight(text) ==
    IF text /= <<>> /\ text[Len(text)] = Space
    THEN StripRight(SubSeq(text, 1, Len(text) - 1))
    ELSE text

\* int(part) succeeds: digits, with blanks allowed around them
IsInt(part) ==
    LET digits == StripRight(StripLeft(part))
    IN  /\ digits /= <<>>
        /\ \A k \in 1..Len(digits) :
              \E d \in 1..10 : DigitChars[d] = digits[k]

\* int(part) for a part that IsInt
RECURSIVE DigitsValue(_, _)
DigitsValue(digits, acc) ==
    IF digits = <<>> THEN acc
    ELSE DigitsValue(Tail(digits),
                     10 * acc
                        + (CHOOSE d \in 0..9 : DigitChars[d + 1] = Head(digits)))

IntOf(part) == DigitsValue(StripRight(StripLeft(part)), 0)

\* clipper-v1.01 lines 690-705; ok is FALSE when a ValueError is raised, by
\* int() or by line 704
parse_time_string(time_str) ==
    IF time_str = <<>> THEN [ok |-> TRUE, value |-> 0]
    ELSE LET parts == SplitColon(time_str) IN
         IF Len(parts) > 3 \/ \E k \in 1..Len(parts) : ~IsInt(parts[k])
         THEN [ok |-> FALSE, value |-> 0]
         ELSE IF Len(parts) = 3
         THEN [ok |-> TRUE,
               value |-> IntOf(parts[1]) * 3600 + IntOf(parts[2]) * 60
                            + IntOf(parts[3])]
         ELSE IF Len(parts) = 2
         THEN [ok |-> TRUE, value |-> IntOf(parts[1]) * 60 + IntOf(parts[2])]
         ELSE [ok |-> TRUE, value |-> IntOf(parts[1])]

\* self.video_clip.duration of the loaded video, in seconds
VideoDuration == 75

\* the highlights clipper-v1.01 can hold: (max(0, t - 2), t + 8, text) for a
\* segment at t = 0, 5 and 70
PanelMenu ==
    { <<0, 8, <<"h", "i">> >>,
      <<3, 13, <<"n", "o">> >>,
      <<68, 78, <<"o", "h">> >> }

\* clipper-v1.01 lines 553-564: the finished slot has stored the list and
\* displayed it; no clip times are set
InitPanel ==
    /\ WorkerAbsent
    /\ ui = "finished"
    /\ full_text = <<>>
    /\ pending_segments = <<>>
    /\ current_typing_text = <<>>
    /\ current_char_index = 0
    /\ typing_timer = FALSE
    /\ \E n \in 0..MaxHighlights : highlights \in [1..n -> PanelMenu]
    /\ clip_buttons = (highlights /= <<>>)
    /\ save_transcript_button = TRUE
    /\ submitted = <<>>
    /\ workers = 0
    /\ runs = 1
    /\ TitleUnused
    /\ ClipUnused
    /\ highlights_textbox = update_highlights_display(highlights)
    /\ clip_start_time = -1
    /\ clip_end_time = -1
    /\ status_label = "Transcription and AI detection complete."
    /\ last_action = [name |-> "none"]

\* what a button handler leaves alone
PanelFrame ==
    UNCHANGED <<ui, full_text, pending_segments, current_typing_text,
                current_char_index, typing_timer, clip_buttons,
                save_transcript_button, submitted, workers, runs, workerVars,
                titleVars, clipVars>>

\* The three buttons are enabled by lines 562-565 and by nothing else.
\* clipper-v1.01 lines 611-633 (CUT CLIP) and 635-651 (SAVE CLIP) with the
\* text cursor in block number block (0-based). Both take the text between
\* "[" and "]" of the line, parse it and set the clip times; they differ in
\* what follows (seeking, saving), which is left out.
SetClipFromLine(name, block) ==
    LET selected_line == highlights_textbox[block + 1].text IN
    /\ last_action' = [name |-> name, block |-> block,
                       of |-> highlights_textbox[block + 1].of,
                       before |-> highlights]
    /\ IF selected_line /= <<>> /\ find(selected_line, "[") >= 0
       THEN LET time_str  == Slice(selected_line,
                                   find(selected_line, "[") + 1,
                                   find(selected_line, "]"))
                timestamp == parse_time_string(time_str)
            IN  IF timestamp.ok
                THEN /\ clip_start_time' = Max(0, timestamp.value - 2)
                     /\ clip_end_time' = Min(VideoDuration, timestamp.value + 8)
                     /\ status_label' = "Clip set"
                ELSE /\ status_label' = "Could not parse highlight timestamp."
                     /\ UNCHANGED <<clip_start_time, clip_end_time>>
       ELSE UNCHANGED <<clip_start_time, clip_end_time, status_label>>
    /\ UNCHANGED <<highlights, highlights_textbox>>
    /\ PanelFrame

handle_highlight_cut ==
    /\ clip_buttons
    /\ \E block \in 0..(Len(highlights_textbox) - 1) :
          SetClipFromLine("cut", block)

handle_highlight_save ==
    /\ clip_buttons
    /\ \E block \in 0..(Len(highlights_textbox) - 1) :
          SetClipFromLine("save", block)

\* clipper-v1.01 lines 653-661 (clipper-v1 lines 654-663 likewise) with the
\* text cursor in block number block (0-based)
handle_highlight_reject ==
    /\ clip_buttons
    /\ \E block \in 0..(Len(highlights_textbox) - 1) :
        LET line_number == block IN
        /\ last_action' = [name |-> "reject", block |-> block,
                           of |-> highlights_textbox[block + 1].of,
                           before |-> highlights]
        /\ IF 0 <= line_number /\ line_number < Len(highlights)
           THEN /\ highlights' =
                     SubSeq(highlights, 1, line_number)
                        \o SubSeq(highlights, line_number + 2, Len(highlights))
                /\ highlights_textbox' = update_highlights_display(highlights')
                /\ status_label' = "Highlight rejected."
           ELSE UNCHANGED <<highlights, highlights_textbox, status_label>>
        /\ UNCHANGED <<clip_start_time, clip_end_time>>
        /\ PanelFrame

NextPanel ==
    \/ handle_highlight_cut
    \/ handle_highlight_save
    \/ handle_highlight_reject

SpecPanel == InitPanel /\ [][NextPanel]_vars

----------------------------------------------------------------------------
(* Helpers of the properties *)


\* no highlight of the list starts before the one before it ends
NoOverlapIn(hl) ==
    \A k \in 1..(Len(hl) - 1) : hl[k + 1][1] >= hl[k][2]

\* number of occurrences of c in s
RECURSIVE Count(_, _)
Count(c, s) ==
    IF s = <<>> THEN 0
    ELSE (IF Head(s) = c THEN 1 ELSE 0) + Count(c, Tail(s))

\* the characters of the chunks of the model
Chars == {"a", "b", "c"}

\* segment k has a top label of joy or surprise with a score above 0.98
Qualifies(k) ==
    LET p == ClassifierTop(segments[k].text)
    IN  p.label \in {"joy", "surprise"} /\ p.score > 98

\* the segments the classifier has returned predictions for
ScoredIds == Concat(classifier_ids)

\* the display queue is Idle after the stream-end signal was handled
EndedAndIdle == ui = "finished" /\ ~typing_timer

----------------------------------------------------------------------------
(* Properties of TranscriptionWorker.run, under Spec *)

\* C1: consecutive highlights never overlap: h[k+1].clipStart >= h[k].clipEnd,
\* in the list being built and in every list emitted on finished, inside one
\* batch and across batches.
C1_NoOverlap ==
    /\ NoOverlapIn(detected_highlights)
    /\ \A e \in 1..Len(finished) : NoOverlapIn(finished[e])

\* C1 witness: segments at [0,5] and [4,9] in the first batch and at [24,30]
\* and [30,60] around the batch boundary, all accepted by the classifier,
\* give two highlights (0,22) and (22,44); one candidate was dropped by the
\* gate inside a batch and one across the batch boundary.
C1_Witness ==
    /\ pc = "done"
    /\ total_segments = BatchSize + 1
    /\ segments[1] = Segment(<<"wow", "amazing">>, 0, 5)
    /\ segments[2] = Segment(<<"wow", "amazing">>, 4, 9)
    /\ segments[BatchSize] = Segment(<<"wow", "amazing">>, 24, 30)
    /\ segments[BatchSize + 1] = Segment(<<"wow", "amazing">>, 30, 60)
    /\ Len(finished) = 1
    /\ Len(finished[1]) = 2
    /\ finished[1][1][2] = 22
    /\ finished[1][2][1] = 22

\* C4 (as claimed): a classifier error does not abort the run: the run goes
\* on, and when it ends every segment had its live_update and progress and
\* finished was emitted.
C4_ClassifierErrorDoesNotAbort ==
    classifier_raised =>
        /\ pc /= "aborted"
        /\ pc = "done" => /\ Len(finished) = 1
                          /\ Len(live_update) = total_segments
                          /\ Len(progress) = total_segments

\* C5 (as claimed): for an empty stream the run emits progress 100 exactly
\* once and then finished with an empty list.
C5_EmptyStreamEmitsProgress100 ==
    (pc = "done" /\ total_segments = 0) =>
        /\ progress = <<100>>
        /\ finished = << <<>> >>

\* C6: over a non-empty stream the progress values are non-decreasing, lie in
\* 0..100, and the last one emitted before finished is exactly 100.
C6_ProgressMonotoneTo100 ==
    total_segments > 0 =>
        /\ \A k \in 1..Len(progress) : progress[k] \in 0..100
        /\ \A k \in 1..(Len(progress) - 1) : progress[k] <= progress[k + 1]
        /\ pc = "done" => /\ progress /= <<>>
                          /\ Last(progress) = 100

\* C6 witness: a finished run over more than one batch whose progress rose
C6_Witness ==
    /\ pc = "done"
    /\ Len(progress) > BatchSize
    /\ progress[1] < progress[2]
    /\ progress[1] > 0

\* C7: while the classifier does not fail, the segments handed to it so far,
\* followed by those waiting in the batch, are exactly segments 1..i in
\* arrival order, each once; when the run is done nothing is left waiting,
\* so every segment (those of a partial last batch too) was scored once.
C7_EverySegmentScoredOnce ==
    ~classifier_raised =>
        /\ ScoredIds \o batch_ids = [k \in 1..i |-> k]
        /\ Concat(classifier_calls) \o batch_texts
              = [k \in 1..i |-> segments[k].text]
        /\ pc = "done" => /\ i = total_segments
                          /\ batch_ids = <<>>
                          /\ Len(ScoredIds) = total_segments

\* C7 witness: a run that ended in the middle of a batch
C7_Witness ==
    /\ pc = "done"
    /\ ~classifier_raised
    /\ total_segments = BatchSize + 1
    /\ ScoredIds = [k \in 1..(BatchSize + 1) |-> k]

\* C8: every classifier call gets between 1 and 10 texts, exactly 10 unless
\* it is the last call; and right after a flush (the last call ended with the
\* segment processed last) the three buffers are empty.
C8_BatchSizes ==
    /\ \A k \in 1..Len(classifier_calls) :
          /\ Len(classifier_calls[k]) \in 1..10
          /\ k < Len(classifier_calls) => Len(classifier_calls[k]) = 10
    /\ (~classifier_raised /\ classifier_ids /= <<>>
          /\ Last(Last(classifier_ids)) = i) =>
          /\ batch_texts = <<>>
          /\ batch_starts = <<>>
          /\ batch_ends = <<>>

\* C8 witness: a full batch followed by a partial last one, buffers empty
C8_Witness ==
    /\ pc = "done"
    /\ Len(classifier_calls) = 2
    /\ Len(classifier_calls[1]) = 10
    /\ Len(classifier_calls[2]) < 10
    /\ batch_texts = <<>>

\* C9: a highlight comes only from a segment whose top label is joy or
\* surprise with a score strictly above 0.98; every such segment scored is a
\* highlight unless it starts (2 s buffer applied) before the end of the
\* highlight accepted last before it, so the first of them always is one;
\* while no such segment was scored (ties at 0.98 and other labels only) the
\* list is empty and last_highlight_end is still 0.
C9_CandidateIffLabelAndScore ==
    pc /= "aborted" =>
        LET Q == {ScoredIds[k] : k \in {n \in 1..Len(ScoredIds) :
                                           Qualifies(ScoredIds[n])}}
            N == Len(candidates)
        IN
        /\ N = Len(detected_highlights)
        /\ \A k \in 1..N : Qualifies(candidates[k].id)
        /\ \A id \in Q :
              \/ \E j \in 1..N : candidates[j].id = id
              \/ \E j \in 1..N :
                    /\ candidates[j].id < id
                    /\ (j = N \/ candidates[j + 1].id > id)
                    /\ detected_highlights[j][2] > Max(0, segments[id].start - 2)
        /\ Q /= {} =>
              /\ detected_highlights /= <<>>
              /\ \A id \in Q : candidates[1].id <= id
        /\ Q = {} =>
              /\ detected_highlights = <<>>
              /\ last_highlight_end = 0

\* C9 witness: a tie at the threshold and another label above it were
\* scored before the segment that gave the only highlight
C9_Witness ==
    /\ pc = "done"
    /\ total_segments >= 5
    /\ ClassifierTop(segments[4].text) = [label |-> "joy", score |-> 98]
    /\ ClassifierTop(segments[5].text) = [label |-> "sadness", score |-> 99]
    /\ Len(candidates) = 1
    /\ candidates[1].id = BatchSize

\* C10: for every accepted highlight the pre-buffer end is start+20 when
\* end-start < 20, start+120 when end-start > 120 and end otherwise, so the
\* pre-buffer duration lies in 20..120; the clamp leaves the start alone.
C10_CandidateEndClamp ==
    \A k \in 1..Len(candidates) :
        LET c == candidates[k]
            d == c.end_time - c.start_time
        IN  /\ c.start_time = segments[c.id].start
            /\ c.end_time = segments[c.id].end
            /\ d < 20 => c.clip_end = c.start_time + 20
            /\ d > 120 => c.clip_end = c.start_time + 120
            /\ (d >= 20 /\ d <= 120) => c.clip_end = c.end_time
            /\ c.clip_end - c.start_time \in 20..120
            /\ detected_highlights[k][1] = Max(0, c.start_time - 2)

\* C10 witness: one run accepted a short, an in-range and an over-long segment
C10_Witness ==
    /\ pc = "done"
    /\ Len(candidates) = 3
    /\ candidates[1].end_time - candidates[1].start_time < 20
    /\ candidates[2].end_time - candidates[2].start_time \in 20..120
    /\ candidates[3].end_time - candidates[3].start_time > 120

\* C11: every highlight has clipStart = max(0, start - 2) and
\* clipEnd = min(clipStart + (candidateEnd - start) + 2, candidateEnd + 2),
\* with start and candidateEnd those of the segment it came from; a stream
\* that begins with the segment (0, 3) scored joy 0.99 has (0, 22) as its
\* first highlight.
C11_BufferedClip ==
    /\ \A k \in 1..Len(candidates) :
          LET c  == candidates[k]
              s  == segments[c.id].start
              cs == IF s - 2 > 0 THEN s - 2 ELSE 0
              a  == cs + (c.clip_end - s) + 2
              b  == c.clip_end + 2
          IN  /\ k <= Len(detected_highlights)
              /\ detected_highlights[k][1] = cs
              /\ detected_highlights[k][2] = (IF a < b THEN a ELSE b)
    /\ (pc = "done" /\ total_segments > 0
          /\ segments[1] = Segment(<<"wow", "amazing">>, 0, 3)) =>
          /\ detected_highlights /= <<>>
          /\ detected_highlights[1][1] = 0
          /\ detected_highlights[1][2] = 22

\* C11 witness: the segment (0, 3) gave (0, 22) and a later segment that
\* starts after the 2-second buffer gave a second highlight
C11_Witness ==
    /\ pc = "done"
    /\ total_segments >= 2
    /\ segments[1] = Segment(<<"wow", "amazing">>, 0, 3)
    /\ Len(detected_highlights) = 2
    /\ detected_highlights[1][1] = 0
    /\ detected_highlights[1][2] = 22
    /\ candidates[2].start_time > 2

\* C13: the highlight list, while it is built and as emitted, is in
\* non-decreasing clipStart order, also for streams whose segment starts
\* are not monotone.
C13_ClipStartOrder ==
    /\ \A k \in 1..(Len(detected_highlights) - 1) :
          detected_highlights[k][1] <= detected_highlights[k + 1][1]
    /\ \A e \in 1..Len(finished) :
          \A k \in 1..(Len(finished[e]) - 1) :
             finished[e][k][1] <= finished[e][k + 1][1]

\* C13 witness: an accepted segment is followed by a qualifying segment that
\* starts earlier (dropped by the gate) and by a later one that is accepted
C13_Witness ==
    /\ pc = "done"
    /\ Len(finished) = 1
    /\ Len(finished[1]) >= 2
    /\ candidates[1].id = 1
    /\ Qualifies(2)
    /\ segments[2].start < segments[1].start
    /\ candidates[2].id > 2

\* C14: in a run whose classifier does not fail, finished is emitted exactly
\* once, as the last event: the live_update and the progress of the last
\* segment come before it and no live_update, progress or finished after it.
C14_FinishedOnceAndLast ==
    ~classifier_raised =>
        /\ Len(finished) <= 1
        /\ \A k \in 1..(Len(events) - 1) : events[k].sig /= "finished"
        /\ pc = "done" <=> (events /= <<>> /\ Last(events).sig = "finished")
        /\ pc = "done" =>
              /\ Len(finished) = 1
              /\ Len(live_update) = total_segments
              /\ Len(progress) = total_segments
              /\ total_segments > 0 =>
                    /\ events[Len(events) - 1]
                          = Event("progress", total_segments)
                    /\ \E j \in 1..(Len(events) - 2) :
                          events[j] = Event("live_update", total_segments)

\* C14 witness: a run over two batches has ended; its last three events are
\* the classifier call and the progress of the last segment, then finished
C14_Witness ==
    /\ pc = "done"
    /\ total_segments > BatchSize
    /\ Len(events) = 2 * total_segments + 3
    /\ events[Len(events)] = Event("finished", total_segments)
    /\ events[Len(events) - 1] = Event("progress", total_segments)
    /\ events[Len(events) - 2] = Event("classifier", total_segments)

----------------------------------------------------------------------------
(* Properties of generate_title, under SpecTitle *)

\* C12 (as claimed): the title is the first 6 words joined by single spaces,
\* followed by an ellipsis only if the text has more than 6 words; a text of
\* 6 or fewer words (single-spaced, no outer blanks) is returned as it is.
C12_EllipsisOnlyAboveSixWords ==
    title_pc = "returned" =>
        LET words == split(title_text) IN
        /\ Len(words) > 6 => title = join(SubSeq(words, 1, 6)) \o Ellipsis
        /\ Len(words) <= 6 => title = join(words)
        /\ (Len(words) <= 6 /\ join(words) = title_text) => title = title_text

----------------------------------------------------------------------------
(* Properties of the display queue, under SpecDisplay *)

\* C2 (as claimed): once the stream has ended and the queue is Idle,
\* full_text is the concatenation of all submitted chunks in submission order.
C2_FinalTextIsConcatenation ==
    EndedAndIdle => full_text = Concat(submitted)

\* C3: once the stream has ended and the queue is Idle, every character of
\* every submitted chunk is in full_text exactly once: the lengths agree and
\* every character occurs as often as in the submitted chunks.
C3_NoCharacterLostOrDuplicated ==
    EndedAndIdle =>
        /\ Len(full_text) = Len(Concat(submitted))
        /\ \A c \in Chars :
              Count(c, full_text) = Count(c, Concat(submitted))

\* C3 witness: the stream ended while a chunk was half typed and others were
\* waiting; the flush and the later ticks rendered all of them (out of order)
C3_Witness ==
    /\ EndedAndIdle
    /\ Len(submitted) >= 2
    /\ full_text /= Concat(submitted)

\* the characters of the chunk being typed that no tick has rendered yet
Untyped ==
    IF typing_timer /\ current_char_index < Len(current_typing_text)
    THEN Len(current_typing_text) - current_char_index
    ELSE 0

\* C15: the step that handles the stream end with a non-empty backlog appends
\* all backlog chunks to full_text in FIFO order and empties the backlog; from
\* then on the backlog stays empty and the text rendered plus the rest of the
\* chunk being typed is exactly as long as all chunks submitted, so no tick
\* renders a flushed chunk a second time.
C15_FlushAtStreamEnd ==
    /\ [][(ui = "running" /\ ui' = "finished" /\ pending_segments /= <<>>) =>
             /\ full_text' = full_text \o Concat(pending_segments)
             /\ pending_segments' = <<>>]_vars
    /\ [](ui = "finished" =>
             /\ pending_segments = <<>>
             /\ Len(full_text) + Untyped = Len(Concat(submitted)))

\* C15 witness: the stream end has just flushed a backlog of two chunks
\* while the first chunk had no character typed yet
C15_Witness ==
    /\ ui = "finished"
    /\ typing_timer
    /\ current_char_index = 0
    /\ Len(submitted) = 3
    /\ submitted[2] /= <<>>
    /\ submitted[3] /= <<>>
    /\ submitted[2] /= submitted[3]
    /\ full_text = submitted[2] \o submitted[3]

\* C16: once transcribe_video has started a further run and before that run
\* has submitted a chunk, full_text is empty, the backlog is empty and the
\* queue is idle, so nothing of the previous run can reach the new full_text.
C16_NewRunStartsClean ==
    (runs >= 2 /\ ui = "running" /\ submitted = <<>>) =>
        /\ full_text = <<>>
        /\ pending_segments = <<>>
        /\ ~typing_timer

\* C17: at most one worker has been started and has not yet had its finished
\* signal handled.
C17_AtMostOneRun == workers <= 1

\* C18: every run enters its loop with last_highlight_end = 0, empty batch
\* buffers and an empty highlight list, whatever the runs before it did, and
\* a run that completes on the same segments emits the same highlight list
\* as every earlier run that completed.
C18_RunsStartFreshAndAgree ==
    /\ (pc = "loop" /\ i = 0) =>
          /\ last_highlight_end = 0
          /\ detected_highlights = <<>>
          /\ batch_texts = <<>>
          /\ batch_starts = <<>>
          /\ batch_ends = <<>>
    /\ pc = "done" =>
          \A r \in 1..Len(earlier_runs) :
              earlier_runs[r] /= <<>> => earlier_runs[r] = finished

\* C18 witness: a second run has completed after a first run that accepted
\* two highlights, so the first run ended with a non-zero last_highlight_end
C18_Witness ==
    /\ pc = "done"
    /\ Len(earlier_runs) = 1
    /\ earlier_runs[1] /= <<>>
    /\ Len(earlier_runs[1][1]) >= 2
    /\ Len(finished[1]) >= 2

\* C19 as claimed: after k of n segments the progress value is the integer
\* nearest to 100k/n.
C19_ProgressIsNearestInteger ==
    \A k \in 1..Len(progress) :
        LET d == progress[k] * total_segments - 100 * k
        IN  2 * (IF d >= 0 THEN d ELSE -d) <= total_segments

\* C19: after k of n segments the progress value is 100k/n truncated, the
\* largest integer p with p * n <= 100k.
C19_ProgressIsTruncated ==
    \A k \in 1..Len(progress) :
        /\ progress[k] * total_segments <= 100 * k
        /\ 100 * k < (progress[k] + 1) * total_segments

\* C19 witness: a run over three segments is done; 200/3 was reported as 66
C19_Witness ==
    /\ pc = "done"
    /\ total_segments = 3
    /\ progress = <<33, 66, 100>>

\* C20 as claimed: progress is emitted only by a segment that made the
\* classifier evaluate a batch, so a completed run has as many progress
\* events as classifier calls.
C20_ProgressOnlyAfterFlush ==
    /\ pc = "done" => Len(progress) = Len(classifier_calls)
    /\ \A j \in 1..Len(events) :
          events[j].sig = "progress" =>
              \E c \in 1..(j - 1) :
                  events[c] = Event("classifier", events[j].seg)

\* C20: every segment whose iteration has completed has emitted exactly one
\* progress event, after its live_update, whether or not it made the
\* classifier evaluate a batch; progress is emitted for no other segment.
C20_ProgressPerSegment ==
    /\ Len(progress) = i
    /\ \A k \in 1..i :
          \E j \in 2..Len(events) :
              /\ events[j] = Event("progress", k)
              /\ \E l \in 1..(j - 1) : events[l] = Event("live_update", k)
              /\ \A m \in 1..Len(events) :
                    events[m] = Event("progress", k) => m = j
    /\ \A j \in 1..Len(events) :
          events[j].sig = "progress" => events[j].seg \in 1..i

\* C20 witness: a run over two batches is done with more progress events
\* than classifier calls
C20_Witness ==
    /\ pc = "done"
    /\ Len(classifier_calls) = 2
    /\ Len(progress) = BatchSize + 1
    /\ Len(progress) > Len(classifier_calls)

\* C21: a step in which a chunk arrives (submitted grows by the chunk) while
\* the timer is active appends the chunk at the tail of pending_segments and
\* leaves current_typing_text, current_char_index and full_text as they were;
\* when the timer is inactive the chunk becomes current_typing_text with
\* index 0, the timer starts, and pending_segments and full_text are left as
\* they were.
C21_ArrivalFrame ==
    [][Len(submitted') = Len(submitted) + 1 =>
          IF typing_timer
          THEN /\ pending_segments' = Append(pending_segments, Last(submitted'))
               /\ current_typing_text' = current_typing_text
               /\ current_char_index' = current_char_index
               /\ full_text' = full_text
               /\ typing_timer'
          ELSE /\ current_typing_text' = Last(submitted')
               /\ current_char_index' = 0
               /\ typing_timer'
               /\ pending_segments' = pending_segments
               /\ full_text' = full_text]_vars

\* C21 witness: the second chunk arrived after one character of the first
\* was typed and waits in the backlog; the first chunk kept its position
C21_Witness ==
    /\ ui = "running"
    /\ Len(submitted) = 2
    /\ typing_timer
    /\ current_typing_text = submitted[1]
    /\ current_char_index = 1
    /\ full_text = <<submitted[1][1]>>
    /\ pending_segments = <<submitted[2]>>

\* a step of the timer slot in the display specification: the only handler
\* that changes neither the position of the run nor the chunks submitted
TickStep == ui' = ui /\ submitted' = submitted

\* C22: a tick that finds the current chunk fully typed removes the oldest
\* chunk from a non-empty backlog, makes it the current chunk with index 0 and
\* leaves the timer active; with an empty backlog it stops the timer. Neither
\* case changes full_text.
C22_TickAtChunkEnd ==
    [][(TickStep /\ typing_timer
                 /\ current_char_index >= Len(current_typing_text)) =>
          /\ full_text' = full_text
          /\ IF pending_segments /= <<>>
             THEN /\ current_typing_text' = Head(pending_segments)
                  /\ pending_segments' = Tail(pending_segments)
                  /\ current_char_index' = 0
                  /\ typing_timer'
             ELSE /\ ~typing_timer'
                  /\ pending_segments' = <<>>]_vars

\* C22 witness: with two different chunks waiting, the older one has become
\* the current chunk and the newer one is still in the backlog
C22_Witness ==
    /\ ui = "running"
    /\ Len(submitted) = 3
    /\ submitted[2] /= submitted[3]
    /\ typing_timer
    /\ current_typing_text = submitted[2]
    /\ current_char_index = 0
    /\ pending_segments = <<submitted[3]>>
    /\ full_text = submitted[1]
    /\ submitted[1] /= <<>>

\* C23: between two handlers, an inactive typing timer implies an empty
\* backlog, in first runs and in runs started again after a finished one.
C23_IdleHasNoBacklog == ~typing_timer => pending_segments = <<>>

\* C23 witness: in a second run three chunks were submitted, the backlog was
\* used up and the timer has stopped
C23_Witness ==
    /\ runs = 2
    /\ ui = "running"
    /\ ~typing_timer
    /\ Len(submitted) = 3
    /\ submitted[1] /= <<>>
    /\ submitted[2] /= <<>>
    /\ Len(full_text) >= Len(Concat(submitted))
    /\ pending_segments = <<>>

\* every character submitted is in full_text as often as it was submitted
Rendered ==
    /\ Len(full_text) = Len(Concat(submitted))
    /\ \A c \in Chars : Count(c, full_text) = Count(c, Concat(submitted))

\* C24: with ticks that keep firing while the timer is active, and a
\* producer that submits finitely many chunks, the queue ends up and stays
\* idle with an empty backlog and everything submitted rendered, whether the
\* stream end flushes the backlog (v2.01) or not (v1, v1.01) and however many
\* chunks arrive between two ticks.
C24_EventuallyIdleAndRendered ==
    <>[](~typing_timer /\ pending_segments = <<>> /\ Rendered)

\* C24 witness: the stream end was handled without a flush while two chunks
\* were waiting and the first was still being typed
C24_Witness ==
    /\ ui = "finished"
    /\ typing_timer
    /\ Len(pending_segments) = 2
    /\ current_char_index < Len(current_typing_text)

\* C25: a tick leaves full_text as it is or appends one character to it, and
\* leaves the backlog as it is or removes its first chunk, however long the
\* backlog is.
C25_OneCharacterPerTick ==
    [][TickStep =>
          /\ \/ full_text' = full_text
             \/ /\ Len(full_text') = Len(full_text) + 1
                /\ SubSeq(full_text', 1, Len(full_text)) = full_text
          /\ \/ pending_segments' = pending_segments
             \/ /\ pending_segments /= <<>>
                /\ pending_segments' = Tail(pending_segments)]_vars

\* C25 witness: two chunks wait behind a two-character chunk of which a tick
\* has typed the first character only
C25_Witness ==
    /\ ui = "running"
    /\ Len(pending_segments) = 2
    /\ Len(current_typing_text) = 2
    /\ current_char_index = 1
    /\ full_text = <<current_typing_text[1]>>

\* C26: while the classifier has not failed, the texts emitted with
\* live_update are the texts of segments 1..i in order, whatever their
\* classification; each segment has exactly one live_update event, these
\* events are in segment order, the live_update of a segment precedes its
\* progress event, and every segment of a batch has its live_update before
\* the classifier call of that batch.
C26_LiveUpdatePerSegment ==
    ~classifier_raised =>
        /\ Len(live_update) = i
        /\ \A k \in 1..i : live_update[k] = segments[k].text
        /\ \A k \in 1..i :
              \E j \in 1..Len(events) :
                  /\ events[j] = Event("live_update", k)
                  /\ \A m \in 1..Len(events) :
                        events[m] = Event("live_update", k) => m = j
        /\ \A j, m \in 1..Len(events) :
              (j < m /\ events[j].sig = "live_update"
                     /\ events[m].sig = "live_update") =>
                  events[j].seg < events[m].seg
        /\ \A j \in 1..Len(events) :
              events[j].sig = "progress" =>
                  \E l \in 1..(j - 1) :
                      events[l] = Event("live_update", events[j].seg)
        /\ \A j \in 1..Len(events) : \A c \in 1..Len(classifier_ids) :
              (events[j].sig = "classifier"
                  /\ Last(classifier_ids[c]) = events[j].seg) =>
                  \A n \in 1..Len(classifier_ids[c]) :
                      \E l \in 1..(j - 1) :
                          events[l] = Event("live_update", classifier_ids[c][n])

\* C26 witness: a run over two batches is done; one of its segments became a
\* highlight, another was scored and rejected, and all were shown
C26_Witness ==
    /\ pc = "done"
    /\ total_segments = BatchSize + 1
    /\ Len(live_update) = total_segments
    /\ Len(detected_highlights) = 1
    /\ Len(classifier_ids) = 2
    /\ Len(events) = 2 * total_segments + 3

\* C27 as claimed: among the segments with end > start evaluated there is
\* one for which the first term of the min() is strictly smaller and one for
\* which the second term is strictly smaller.
C27_EitherTermCanBind ==
    clip_pc = "done" => (first_binds /\ second_binds)

\* C27: for no segment with start >= 0 and end > start is the second term
\* strictly smaller: it exceeds the first term by min(start, 2), so the terms
\* are equal when start = 0, the first is strictly smaller when start > 0,
\* and the clip end is the first term.
C27_FirstTermBinds ==
    /\ ~second_binds
    /\ clip_pc = "computed" =>
          LET seg == ClipInput(clip_index)
              a   == clip_result.clip_start
                       + (clip_result.candidate_end - seg.start) + 2
              b   == clip_result.candidate_end + 2
          IN  seg.end > seg.start =>
                /\ a <= b
                /\ b - a = Min(seg.start, 2)
                /\ clip_result.clip_end = a

\* C27 witness: every segment was evaluated; the first term was strictly
\* smaller for some of them and the second term for none
C27_Witness ==
    /\ clip_pc = "done"
    /\ clip_index = NumClipInputs
    /\ first_binds
    /\ ~second_binds

\* C28: for every accepted highlight (all segments start at 0 or later)
\* clipEnd - clipStart is (candidateEnd - start) + 2 and lies in 22..122, and
\* a highlight from a segment that starts at 2 or later ends at candidateEnd.
C28_ClipLength ==
    \A k \in 1..Len(candidates) :
        LET c == candidates[k]
            h == detected_highlights[k]
        IN  c.start_time >= 0 =>
              /\ h[2] - h[1] = (c.clip_end - c.start_time) + 2
              /\ h[2] - h[1] \in 22..122
              /\ c.start_time >= 2 => h[2] = c.clip_end

\* C28 witness: a run accepted a segment that starts before second 2, which
\* ends after its clamped end, and one that starts later and was clamped to
\* 120 seconds, which ends at its clamped end, 122 seconds after its start
C28_Witness ==
    /\ pc = "done"
    /\ Len(candidates) = 2
    /\ candidates[1].start_time = 1
    /\ detected_highlights[1][2] = candidates[1].clip_end + 1
    /\ candidates[2].start_time >= 2
    /\ detected_highlights[2][2] = candidates[2].clip_end
    /\ detected_highlights[2][2] - detected_highlights[2][1] = 122

\* C29: last_highlight_end is 0 while no highlight was appended and the
\* clipEnd of the last highlight otherwise; in every step of a run it does
\* not decrease, it changes only if a highlight is appended, and the
\* highlights already in the list stay; so a candidate the gate rejects
\* changes neither.
C29_LastHighlightEnd ==
    /\ [](last_highlight_end =
            IF detected_highlights = <<>> THEN 0
            ELSE Last(detected_highlights)[2])
    /\ [][/\ last_highlight_end' >= last_highlight_end
          /\ last_highlight_end' /= last_highlight_end =>
                Len(detected_highlights') > Len(detected_highlights)
          /\ Len(detected_highlights') >= Len(detected_highlights)
          /\ SubSeq(detected_highlights', 1, Len(detected_highlights))
                = detected_highlights]_vars

\* C29 witness: the first segment became a highlight; the second scored
\* above the threshold too but starts before the first clip ends and was
\* rejected, with last_highlight_end still the end of the first clip
C29_Witness ==
    /\ pc = "done"
    /\ total_segments >= 2
    /\ Qualifies(1)
    /\ Qualifies(2)
    /\ Len(detected_highlights) = 1
    /\ candidates[1].id = 1
    /\ last_highlight_end = detected_highlights[1][2]
    /\ last_highlight_end > 0

\* C30: every highlight of the list emitted with finished has clipStart >= 0
\* and clipEnd > clipStart, also when its segment ends at or before its start.
C30_ClipWellFormed ==
    /\ \A k \in 1..Len(detected_highlights) :
          /\ detected_highlights[k][1] >= 0
          /\ detected_highlights[k][2] > detected_highlights[k][1]
    /\ \A e \in 1..Len(finished) : \A k \in 1..Len(finished[e]) :
          /\ finished[e][k][1] >= 0
          /\ finished[e][k][2] > finished[e][k][1]

\* C30 witness: the emitted list holds a highlight from a segment whose end
\* is before its start
C30_Witness ==
    /\ pc = "done"
    /\ Len(finished) = 1
    /\ \E k \in 1..Len(candidates) :
          /\ candidates[k].end_time <= candidates[k].start_time
          /\ k <= Len(finished[1])
          /\ finished[1][k][1] = candidates[k].start_time - 2

\* C32: once handle_transcription_finished has enabled Save Transcript,
\* full_text holds every character of every chunk submitted in the run.
C32_SavedTranscriptComplete ==
    (ui = "finished" /\ save_transcript_button) => Rendered

\* C34: the CUT CLIP / SAVE CLIP / REJECT buttons are enabled only while
\* self.highlights is non-empty.
C34_ClipButtonsNeedHighlights == clip_buttons => highlights /= <<>>

\* C36: current_char_index stays within 0..len(current_typing_text), and in
\* every step other than the reset of a new run the old full_text is a
\* prefix of the new one.
C36_IndexAndAppendOnly ==
    /\ [](current_char_index \in 0..Len(current_typing_text))
    /\ [][runs' = runs =>
             /\ Len(full_text') >= Len(full_text)
             /\ SubSeq(full_text', 1, Len(full_text)) = full_text]_vars

\* C36 witness: in a second run the stream end has flushed a backlog behind
\* text already typed, and the current chunk is typed to its end
C36_Witness ==
    /\ runs = 2
    /\ ui = "finished"
    /\ Len(submitted) = 3
    /\ Len(current_typing_text) = 2
    /\ current_char_index = Len(current_typing_text)
    /\ Len(full_text) >= 4

\* a call of evaluate_segment whose classifier returned joy or surprise
\* above the clipper-v1.01 threshold
AcceptedV101(call) ==
    /\ ~call.raised
    /\ ClassifierTop(call.text).label \in {"joy", "surprise"}
    /\ ClassifierTop(call.text).score > 95

\* C31: in clipper-v1.01 a classifier call that raises adds no highlight and
\* removes none: the highlight list is, in call order, one (max(0, t - 2),
\* t + 8, text) for every call that did not raise and scored joy or surprise
\* above 0.95. The run is never aborted; it reaches its end, where every
\* segment was processed and finished was emitted once with that list.
C31_ClassifierErrorSkipsItem ==
    /\ [](pc /= "aborted")
    /\ [](LET ok == SelectSeq(classifier_calls, AcceptedV101) IN
            /\ Len(detected_highlights) = Len(ok)
            /\ \A k \in 1..Len(ok) :
                  detected_highlights[k] =
                     << Max(0, ok[k].timestamp - 2), ok[k].timestamp + 8,
                        ok[k].text >>)
    /\ [](pc = "done" =>
            /\ i = total_segments
            /\ Len(live_update) = total_segments
            /\ finished = <<detected_highlights>>)
    /\ <>(pc = "done")

\* C31 witness: the run is done; the classifier raised for a text it would
\* have accepted, and a later segment still became a highlight
C31_Witness ==
    /\ pc = "done"
    /\ total_segments = 3
    /\ Len(finished) = 1
    /\ \E j, k \in 1..Len(classifier_calls) :
          /\ classifier_calls[j].raised
          /\ classifier_calls[j].text = <<"wow", "amazing">>
          /\ classifier_calls[j].seg < classifier_calls[k].seg
          /\ AcceptedV101(classifier_calls[k])
          /\ Len(finished[1]) >= 1

\* the list without its k-th element
Without(list, k) == SubSeq(list, 1, k - 1) \o SubSeq(list, k + 1, Len(list))

\* C33: REJECT with the cursor on the display line of the k-th highlight
\* removes exactly that k-th highlight from the list and no other, for every k.
C33_RejectRemovesHighlightUnderCursor ==
    (last_action.name = "reject" /\ last_action.of >= 1)
        => highlights = Without(last_action.before, last_action.of)

\* C35: CUT CLIP and SAVE CLIP with the cursor on a highlight line set the clip
\* times to max(0, t - 2) and min(video duration, t + 8) for the displayed
\* start time t of the highlight, and do not end in the parse error.
C35_CutSetsClipTimes ==
    (last_action.name \in {"cut", "save"} /\ last_action.of >= 1)
        => LET t == last_action.before[last_action.of][1] IN
           /\ status_label /= "Could not parse highlight timestamp."
           /\ clip_start_time = Max(0, t - 2)
           /\ clip_end_time = Min(VideoDuration, t + 8)

============================================================================
